---- MODULE Spec2Model ----
(***************************************************************************)
(* Model of the `scale` command of docker-compose-extensions               *)
(* (src/unnamed/part_000): the auto-scaling loop runAutoScale /            *)
(* checkAndScale and the three strategy functions.                         *)
(*                                                                         *)
(* Numbers.  cpuUsage, memUsage and the thresholds are float64 in the      *)
(* source.  The model draws them from whole percentages, for which the     *)
(* float64 tests  u < t*0.5,  u < t*0.7,  u > t*1.2  agree with the exact  *)
(* integer tests  10*u < 5*t,  10*u < 7*t,  10*u > 12*t  (every t in       *)
(* 0..200 and u in 0..300), and int(float64(n)*1.5), int(float64(n)*0.75)  *)
(* are the truncated quotients 3n/2 and 3n/4.                              *)
(*                                                                         *)
(* Pointers.  ServiceConfig.Scale is a *int: the model writes it as a      *)
(* sequence of length 0 (nil) or 1 (the pointee).                          *)
(***************************************************************************)
EXTENDS Integers, Sequences, FiniteSets, TLC

\* ------------------------------------------------------------------ bounds
MaxInitScale == 3
MaxReplicasBound == 2
MaxFnScale == 4

\* ------------------------------------------------------- inputs of a run
\* services of the loaded project (project.Services)
Discovered == {"a", "b"}
\* the SERVICE arguments of one invocation; "c" is a name not in the project
ArgChoices == {{}, {"a", "b"}, {"b", "c"}}
\* --strategy is a free string: the three documented names and another one
Strategies == {"balanced", "performance", "efficiency"}
StrategyInputs == Strategies \cup {"turbo"}
\* flag defaults of scaleCommand
DefaultCpuThreshold == 70
DefaultMemThreshold == 70
\* --cpu-threshold and --mem-threshold as given on the command line: the
\* default and a value inside the range of the samples
ThresholdInputs == {45, DefaultCpuThreshold}
\* utilisation percentages returned by a sample: getServiceResourceUsage
\* returns 50.0 + (rand.Float64()*20.0 - 10.0), a value of [40, 60)
Usages == {40, 50, 59}
\* *int values a loaded service can carry
NilScale == << >>
InitScales == {NilScale} \cup {<<n>> : n \in 0..MaxInitScale}
\* the two thresholds are given the same value
OptsInputs ==
    {o \in [strategy : StrategyInputs,
            minReplicas : 0..MaxReplicasBound,
            maxReplicas : 1..MaxReplicasBound,
            cpuThreshold : ThresholdInputs,
            memThreshold : ThresholdInputs] : o.cpuThreshold = o.memThreshold}

\* inputs of a decision taken on its own: usages and thresholds on and
\* around the factors 0.5, 0.7, 1 and 1.2
FnUsages == {30, 40, 50, 60, 70, 80, 90}
FnThresholds == {50, 70, 100}
FnOptsInputs ==
    [strategy : StrategyInputs,
     minReplicas : 0..MaxReplicasBound,
     maxReplicas : 1..MaxReplicasBound,
     cpuThreshold : FnThresholds,
     memThreshold : FnThresholds]

\* ------------------------------------------------------- pure functions
\* Go's int(x) conversion of a float64 quotient n/d: truncation toward zero
Trunc(n, d) == IF n >= 0 THEN n \div d ELSE -((-n) \div d)

\* variant: scale up by doubling
calculatePerformanceScale_Double(currentScale, cpuUsage, memUsage, o) ==
    IF cpuUsage > o.cpuThreshold \/ memUsage > o.memThreshold
    THEN 2 * currentScale
    ELSE IF /\ 10 * cpuUsage < 5 * o.cpuThreshold
            /\ 10 * memUsage < 5 * o.memThreshold
            /\ currentScale > o.minReplicas
         THEN currentScale - 1
         ELSE currentScale

calculatePerformanceScale(currentScale, cpuUsage, memUsage, o) ==
    IF cpuUsage > o.cpuThreshold \/ memUsage > o.memThreshold
    THEN Trunc(3 * currentScale, 2)
    ELSE IF /\ 10 * cpuUsage < 5 * o.cpuThreshold
            /\ 10 * memUsage < 5 * o.memThreshold
            /\ currentScale > o.minReplicas
         THEN currentScale - 1
         ELSE currentScale

\* variant: the minReplicas guard covers both halves of the disjunction
calculateEfficiencyScale_Guarded(currentScale, cpuUsage, memUsage, o) ==
    IF 10 * cpuUsage > 12 * o.cpuThreshold \/ 10 * memUsage > 12 * o.memThreshold
    THEN currentScale + 1
    ELSE IF /\ (cpuUsage < o.cpuThreshold \/ memUsage < o.memThreshold)
            /\ currentScale > o.minReplicas
         THEN Trunc(3 * currentScale, 4)
         ELSE currentScale

\* variant: scale down only when cpu and memory are both below threshold
calculateEfficiencyScale_BothBelow(currentScale, cpuUsage, memUsage, o) ==
    IF 10 * cpuUsage > 12 * o.cpuThreshold \/ 10 * memUsage > 12 * o.memThreshold
    THEN currentScale + 1
    ELSE IF cpuUsage < o.cpuThreshold /\ memUsage < o.memThreshold
         THEN Trunc(3 * currentScale, 4)
         ELSE currentScale

calculateEfficiencyScale(currentScale, cpuUsage, memUsage, o) ==
    IF 10 * cpuUsage > 12 * o.cpuThreshold \/ 10 * memUsage > 12 * o.memThreshold
    THEN currentScale + 1
    ELSE IF \/ cpuUsage < o.cpuThreshold
            \/ (memUsage < o.memThreshold /\ currentScale > o.minReplicas)
         THEN Trunc(3 * currentScale, 4)
         ELSE currentScale

\* variant: usage equal to the threshold already scales up
calculateBalancedScale_Gte(currentScale, cpuUsage, memUsage, o) ==
    IF cpuUsage >= o.cpuThreshold \/ memUsage >= o.memThreshold
    THEN currentScale + 1
    ELSE IF /\ 10 * cpuUsage < 7 * o.cpuThreshold
            /\ 10 * memUsage < 7 * o.memThreshold
            /\ currentScale > o.minReplicas
         THEN currentScale - 1
         ELSE currentScale

calculateBalancedScale(currentScale, cpuUsage, memUsage, o) ==
    IF cpuUsage > o.cpuThreshold \/ memUsage > o.memThreshold
    THEN currentScale + 1
    ELSE IF /\ 10 * cpuUsage < 7 * o.cpuThreshold
            /\ 10 * memUsage < 7 * o.memThreshold
            /\ currentScale > o.minReplicas
         THEN currentScale - 1
         ELSE currentScale

\* the switch on opts.strategy in checkAndScale
Decide(currentScale, cpuUsage, memUsage, o) ==
    CASE o.strategy = "performance" ->
            calculatePerformanceScale(currentScale, cpuUsage, memUsage, o)
      [] o.strategy = "efficiency" ->
            calculateEfficiencyScale(currentScale, cpuUsage, memUsage, o)
      [] OTHER ->
            calculateBalancedScale(currentScale, cpuUsage, memUsage, o)

\* variant: the lower limit is not applied
ApplyLimits_NoMin(newScale, o) ==
    IF newScale > o.maxReplicas THEN o.maxReplicas ELSE newScale

ApplyLimits_NoMax(newScale, o) ==
    IF newScale < o.minReplicas THEN o.minReplicas ELSE newScale

\* "Apply scale limits": the two successive ifs of checkAndScale
ApplyLimits(newScale, o) ==
    LET n1 == IF newScale < o.minReplicas THEN o.minReplicas ELSE newScale
    IN  IF n1 > o.maxReplicas THEN o.maxReplicas ELSE n1

ScaleNeeded_Always(newScale, currentScale) == TRUE

\* "Scale if needed"
ScaleNeeded(newScale, currentScale) == newScale # currentScale

\* variant: a service with no scale counts as 0 replicas
CurrentScaleOf_Zero(scale) == IF scale = NilScale THEN 0 ELSE scale[1]

\* the replica count checkAndScale reads from a service
CurrentScaleOf(scale) == IF scale = NilScale THEN 1 ELSE scale[1]

\* ------------------------------------------------------------------ state
VARIABLES
    opts,             \* scaleOptions of the run
    args,             \* the services argument of runAutoScale
    projectServices,  \* project.Services: name -> Scale
    targetServices,   \* the map checkAndScale ranges over: name -> Scale
    pc,               \* position of the run
    ctxDone,          \* ctx.Done() is closed
    remaining,        \* keys the range loop of the tick has not visited yet
    it,               \* locals of the current iteration of the range loop
                      \* (serviceName, currentScale, newScale)
    event,            \* what the loop did last
    applied,          \* services that have had a decision computed and applied
    inflight,         \* collaborator calls issued and not yet returned
    visits,           \* per service: samples and backend.Scale calls issued
                      \* in the call of checkAndScale under way
    lastOk,           \* per service: target of its last backend.Scale call
                      \* that returned nil (nil pointer notation if none)
    fn,               \* one decision taken on its own: inputs and results
    serviceReplicaTuples  \* manual mode: the map parseServicesReplicasArgs
                      \* returned (service name -> replicas)

vars == <<opts, args, projectServices, targetServices, pc, ctxDone,
          remaining, it, event, applied, inflight, visits, lastOk, fn,
          serviceReplicaTuples>>

\* the empty map string -> int
NoTuples == [k \in {} |-> 0]

NoLocals == [serviceName |-> "", currentScale |-> 0, newScale |-> 0]

\* With no SERVICE argument targetServices is project.Services itself (a Go
\* map is a reference); otherwise it is a fresh map holding copies.
Aliased == args = {}

NoCall == [currentScale |-> 0, cpuUsage |-> 0, memUsage |-> 0,
           desired |-> 0, newScale |-> 0, done |-> FALSE]

NoVisits == [s \in Discovered |-> [samples |-> 0, scales |-> 0]]

Init ==
    /\ fn = NoCall
    /\ serviceReplicaTuples = NoTuples
    /\ inflight = 0
    /\ visits = NoVisits
    /\ lastOk = [s \in Discovered |-> NilScale]
    /\ opts \in OptsInputs
    /\ args \in ArgChoices
    /\ projectServices \in [Discovered -> InitScales]
    /\ targetServices = [s \in {} |-> NilScale]
    /\ pc = "start"
    /\ ctxDone = FALSE
    /\ remaining = {}
    /\ it = NoLocals
    /\ event = "none"
    /\ applied = {}

\* ---------------------------------------------------------------- actions
\* runAutoScale: compose.NewComposeService or opts.ToProject returns an
\* error, which runAutoScale returns to its caller.
StartFail ==
    /\ pc = "start"
    /\ pc' = "failed"
    /\ UNCHANGED <<serviceReplicaTuples, inflight, visits, lastOk, fn, opts, args, projectServices, targetServices, ctxDone,
                   remaining, it, event, applied>>

\* variant: the names are ignored and every service of the project is kept
ResolveTargets_IgnoreNames(services, names) == services

\* the "Filter services to only those specified" block of runAutoScale
ResolveTargets(services, names) ==
    IF names # {}
    THEN [s \in names \cap DOMAIN services |-> services[s]]
    ELSE services

\* runAutoScale up to the main loop: the project loads and the target
\* services are resolved.
StartOk ==
    /\ pc = "start"
    /\ targetServices' = ResolveTargets(projectServices, args)
    /\ pc' = "select"
    /\ UNCHANGED <<serviceReplicaTuples, inflight, visits, lastOk, fn, opts, args, projectServices, ctxDone, remaining, it,
                   event, applied>>

\* variant: the Done case prints and falls into the next tick
SelectDone_Continue ==
    /\ pc = "select"
    /\ ctxDone
    /\ pc' = "tick"
    /\ remaining' = DOMAIN targetServices
    /\ event' = "tickStart"
    /\ visits' = NoVisits
    /\ UNCHANGED <<serviceReplicaTuples, inflight, lastOk, fn, opts, args, projectServices, targetServices, ctxDone,
                   it, applied>>

\* variant: the Done case returns ctx.Err() to the caller
SelectDone_ReturnErr ==
    /\ pc = "select"
    /\ ctxDone
    /\ pc' = "failed"
    /\ UNCHANGED <<serviceReplicaTuples, inflight, visits, lastOk, fn, opts, args, projectServices, targetServices, ctxDone,
                   remaining, it, event, applied>>

\* select, case <-ctx.Done(): print and return nil
SelectDone ==
    /\ pc = "select"
    /\ ctxDone
    /\ pc' = "stopped"
    /\ UNCHANGED <<serviceReplicaTuples, inflight, visits, lastOk, fn, opts, args, projectServices, targetServices, ctxDone,
                   remaining, it, event, applied>>

\* select, default: call checkAndScale, whose range loop starts
SelectDefault ==
    /\ pc = "select"
    /\ ~ctxDone
    /\ pc' = "tick"
    /\ remaining' = DOMAIN targetServices
    /\ event' = "tickStart"
    /\ visits' = NoVisits
    /\ UNCHANGED <<serviceReplicaTuples, inflight, lastOk, fn, opts, args, projectServices, targetServices, ctxDone,
                   it, applied>>

\* variant: the range loop looks at ctx.Done() before each service
RangeNext_Preempt(s) ==
    /\ pc = "tick"
    /\ s \in remaining
    /\ IF ctxDone
       THEN /\ pc' = "stopped"
            /\ UNCHANGED <<remaining, it, event, inflight, visits>>
       ELSE /\ remaining' = remaining \ {s}
            /\ it' = [NoLocals EXCEPT !.serviceName = s,
                                      !.currentScale = CurrentScaleOf(targetServices[s])]
            /\ event' = "sampling"
            /\ pc' = "sampling"
            /\ inflight' = inflight + 1
            /\ visits' = [visits EXCEPT ![s].samples = @ + 1]
    /\ UNCHANGED <<serviceReplicaTuples, lastOk, fn, opts, args, projectServices, targetServices, ctxDone,
                   applied>>

\* one iteration of the range loop starts: read the service's scale and
\* call getServiceResourceUsage.  Go visits the keys of a map in no fixed
\* order, each key once.
RangeNext(s) ==
    /\ pc = "tick"
    /\ s \in remaining
    /\ remaining' = remaining \ {s}
    /\ it' = [NoLocals EXCEPT !.serviceName = s,
                              !.currentScale = CurrentScaleOf(targetServices[s])]
    /\ event' = "sampling"
    /\ pc' = "sampling"
    /\ inflight' = inflight + 1
    /\ visits' = [visits EXCEPT ![s].samples = @ + 1]
    /\ UNCHANGED <<serviceReplicaTuples, lastOk, fn, opts, args, projectServices, targetServices, ctxDone,
                   applied>>

\* variant: the failed service is put back and sampled again in the tick
SampleErr_Retry ==
    /\ pc = "sampling"
    /\ pc' = "tick"
    /\ event' = "sampleErr"
    /\ remaining' = remaining \cup {it.serviceName}
    /\ inflight' = inflight - 1
    /\ UNCHANGED <<serviceReplicaTuples, visits, lastOk, fn, opts, args, projectServices, targetServices, ctxDone,
                   it, applied>>

\* variant: the sampling error is returned up to the caller of runAutoScale
SampleErr_Abort ==
    /\ pc = "sampling"
    /\ pc' = "failed"
    /\ event' = "sampleErr"
    /\ inflight' = inflight - 1
    /\ UNCHANGED <<serviceReplicaTuples, visits, lastOk, fn, opts, args, projectServices, targetServices, ctxDone,
                   remaining, it, applied>>

\* getServiceResourceUsage returns an error: warn and continue
SampleErr ==
    /\ pc = "sampling"
    /\ pc' = "tick"
    /\ event' = "sampleErr"
    /\ inflight' = inflight - 1
    /\ UNCHANGED <<serviceReplicaTuples, visits, lastOk, fn, opts, args, projectServices, targetServices, ctxDone,
                   remaining, it, applied>>

\* service.SetScale(newScale); project.Services[serviceName] = service.
\* The write goes to project.Services, which is the ranged map only when
\* the two are the same map.
StoreScale(services, name, newScale) ==
    [services EXCEPT ![name] = <<newScale>>]

\* variant: backend.Scale is started and not waited for
SampleOk_Async(cpuUsage, memUsage) ==
    /\ pc = "sampling"
    /\ LET newScale == ApplyLimits(Decide(it.currentScale, cpuUsage, memUsage, opts), opts)
       IN  /\ it' = [it EXCEPT !.newScale = newScale]
           /\ applied' = applied \cup {it.serviceName}
           /\ IF ScaleNeeded(newScale, it.currentScale)
              THEN /\ projectServices' = StoreScale(projectServices, it.serviceName, newScale)
                   /\ targetServices' = IF Aliased THEN projectServices' ELSE targetServices
                   /\ event' = "scaling"
                   /\ pc' = "tick"
                   /\ visits' = [visits EXCEPT ![it.serviceName].scales = @ + 1]
                   /\ inflight' = inflight - 1 + 1
              ELSE /\ event' = "unchanged"
                   /\ pc' = "tick"
                   /\ inflight' = inflight - 1
                   /\ UNCHANGED <<projectServices, targetServices, visits>>
    /\ UNCHANGED <<serviceReplicaTuples, lastOk, fn, opts, args, ctxDone, remaining>>

\* getServiceResourceUsage returns a sample: decide, apply the limits and,
\* if the scale changes, store it and call backend.Scale
SampleOk(cpuUsage, memUsage) ==
    /\ pc = "sampling"
    /\ LET newScale == ApplyLimits(Decide(it.currentScale, cpuUsage, memUsage, opts), opts)
       IN  /\ it' = [it EXCEPT !.newScale = newScale]
           /\ applied' = applied \cup {it.serviceName}
           /\ IF ScaleNeeded(newScale, it.currentScale)
              THEN /\ projectServices' = StoreScale(projectServices, it.serviceName, newScale)
                   /\ targetServices' = IF Aliased THEN projectServices' ELSE targetServices
                   /\ event' = "scaling"
                   /\ pc' = "scaling"
                   /\ visits' = [visits EXCEPT ![it.serviceName].scales = @ + 1]
                   /\ inflight' = inflight - 1 + 1
              ELSE /\ event' = "unchanged"
                   /\ pc' = "tick"
                   /\ inflight' = inflight - 1
                   /\ UNCHANGED <<projectServices, targetServices, visits>>
    /\ UNCHANGED <<serviceReplicaTuples, lastOk, fn, opts, args, ctxDone, remaining>>

\* backend.Scale returns nil: report success, next iteration
ScaleOk ==
    /\ pc = "scaling"
    /\ pc' = "tick"
    /\ event' = "scaleOk"
    /\ inflight' = inflight - 1
    /\ UNCHANGED <<serviceReplicaTuples, visits, lastOk, fn, opts, args, projectServices, targetServices, ctxDone,
                   remaining, it, applied>>

\* ScaleOk, with the target of the successful call kept in lastOk
ScaleOkObserved ==
    /\ pc = "scaling"
    /\ pc' = "tick"
    /\ event' = "scaleOk"
    /\ inflight' = inflight - 1
    /\ lastOk' = [lastOk EXCEPT ![it.serviceName] = <<it.newScale>>]
    /\ UNCHANGED <<serviceReplicaTuples, visits, fn, opts, args, projectServices, targetServices, ctxDone,
                   remaining, it, applied>>

\* variant: checkAndScale returns the error of backend.Scale at once
ScaleErr_Return ==
    /\ pc = "scaling"
    /\ pc' = "sleeping"
    /\ event' = "scaleErr"
    /\ inflight' = inflight - 1
    /\ UNCHANGED <<serviceReplicaTuples, visits, lastOk, fn, opts, args, projectServices, targetServices, ctxDone,
                   remaining, it, applied>>

\* backend.Scale returns an error: warn, next iteration
ScaleErr ==
    /\ pc = "scaling"
    /\ pc' = "tick"
    /\ event' = "scaleErr"
    /\ inflight' = inflight - 1
    /\ UNCHANGED <<serviceReplicaTuples, visits, lastOk, fn, opts, args, projectServices, targetServices, ctxDone,
                   remaining, it, applied>>

\* the range loop is exhausted: checkAndScale returns nil and runAutoScale
\* calls time.Sleep
RangeEnd ==
    /\ pc = "tick"
    /\ remaining = {}
    /\ pc' = "sleeping"
    /\ event' = "tickEnd"
    /\ it' = NoLocals
    /\ visits' = NoVisits
    /\ UNCHANGED <<serviceReplicaTuples, inflight, lastOk, fn, opts, args, projectServices, targetServices, ctxDone,
                   remaining, applied>>

\* time.Sleep returns: back to the select of the for loop
Wake ==
    /\ pc = "sleeping"
    /\ pc' = "select"
    /\ UNCHANGED <<serviceReplicaTuples, inflight, visits, lastOk, fn, opts, args, projectServices, targetServices, ctxDone,
                   remaining, it, event, applied>>

\* the context of the command is cancelled (interrupt or deadline)
Cancel ==
    /\ ~ctxDone
    /\ pc \notin {"stopped", "failed"}
    /\ ctxDone' = TRUE
    /\ UNCHANGED <<serviceReplicaTuples, inflight, visits, lastOk, fn, opts, args, projectServices, targetServices, pc,
                   remaining, it, event, applied>>

\* the steps of the goroutine running runAutoScale
LoopStep ==
    \/ StartFail
    \/ StartOk
    \/ SelectDone
    \/ SelectDefault
    \/ \E s \in Discovered : RangeNext(s)
    \/ SampleErr
    \/ \E cpuUsage \in Usages, memUsage \in Usages : SampleOk(cpuUsage, memUsage)
    \/ ScaleOk
    \/ ScaleErr
    \/ RangeEnd
    \/ Wake

Next == LoopStep \/ Cancel

Spec == Init /\ [][Next]_vars

\* the same run, observed with the targets of the successful calls
HistNext ==
    \/ StartFail
    \/ StartOk
    \/ SelectDone
    \/ SelectDefault
    \/ \E s \in Discovered : RangeNext(s)
    \/ SampleErr
    \/ \E cpuUsage \in Usages, memUsage \in Usages : SampleOk(cpuUsage, memUsage)
    \/ ScaleOkObserved
    \/ ScaleErr
    \/ RangeEnd
    \/ Wake
    \/ Cancel

HistSpec == Init /\ [][HistNext]_vars

\* A run under lasting overload: every service of the project is monitored,
\* the thresholds are low enough for a sample to be above them, every sample
\* is above both thresholds, no call fails and the context is not cancelled.
OverloadInit ==
    /\ Init
    /\ args = {}
    /\ \E cpuUsage \in Usages, memUsage \in Usages :
           cpuUsage > opts.cpuThreshold /\ memUsage > opts.memThreshold

OverloadSample ==
    \E cpuUsage \in Usages, memUsage \in Usages :
        /\ cpuUsage > opts.cpuThreshold
        /\ memUsage > opts.memThreshold
        /\ SampleOk(cpuUsage, memUsage)

OverloadNext ==
    \/ StartOk
    \/ SelectDefault
    \/ \E s \in Discovered : RangeNext(s)
    \/ OverloadSample
    \/ ScaleOkObserved
    \/ RangeEnd
    \/ Wake

OverloadSpec == OverloadInit /\ [][OverloadNext]_vars /\ WF_vars(OverloadNext)

\* The goroutine keeps running, and the collaborator calls and the sleep
\* return; nothing obliges the context to be cancelled.
FairSpec == Spec /\ WF_vars(LoopStep)

\* ------------------------------------------ one decision taken on its own
\* the options, the scale a service carries and the sample it gets
FnInit ==
    /\ serviceReplicaTuples = NoTuples
    /\ inflight = 0
    /\ visits = NoVisits
    /\ lastOk = [s \in Discovered |-> NilScale]
    /\ opts \in FnOptsInputs
    /\ fn \in [currentScale : 0..MaxFnScale, cpuUsage : FnUsages,
                memUsage : FnUsages, desired : {0}, newScale : {0},
                done : {FALSE}]
    /\ args = {}
    /\ projectServices = [s \in Discovered |-> NilScale]
    /\ targetServices = [s \in {} |-> NilScale]
    /\ pc = "decide"
    /\ ctxDone = FALSE
    /\ remaining = {}
    /\ it = NoLocals
    /\ event = "none"
    /\ applied = {}

\* the strategy switch and the limits of checkAndScale, applied to the inputs
FnDecide ==
    /\ pc = "decide"
    /\ LET desired == Decide(fn.currentScale, fn.cpuUsage, fn.memUsage, opts)
       IN  fn' = [fn EXCEPT !.desired = desired,
                            !.newScale = ApplyLimits(desired, opts),
                            !.done = TRUE]
    /\ pc' = "decided"
    /\ UNCHANGED <<serviceReplicaTuples, inflight, visits, lastOk, opts, args, projectServices, targetServices, ctxDone,
                   remaining, it, event, applied>>

FnNext == FnDecide

FnSpec == FnInit /\ [][FnNext]_vars

TypeOK ==
    /\ fn = NoCall
    /\ serviceReplicaTuples = NoTuples
    /\ inflight \in 0..1
    /\ \A s \in Discovered : visits[s].samples \in 0..1 /\ visits[s].scales \in 0..1
    /\ opts \in OptsInputs
    /\ args \in ArgChoices
    /\ projectServices \in [Discovered -> {NilScale} \cup {<<n>> : n \in 0..(MaxInitScale + MaxReplicasBound)}]
    /\ DOMAIN targetServices \subseteq Discovered
    /\ pc \in {"start", "failed", "select", "tick", "sampling", "scaling",
               "sleeping", "stopped"}
    /\ ctxDone \in BOOLEAN
    /\ remaining \subseteq DOMAIN targetServices
    /\ applied \subseteq DOMAIN targetServices

\* ------------------------------------------------------------ manual mode
\* `scale SERVICE=REPLICAS...` without --auto. A command-line argument is a
\* sequence of one-character strings.
MaxArgs == 2

Digits == {"0", "1", "2", "3", "4", "5", "6", "7", "8", "9"}

ManualArgInputs ==
    { <<"a", "=", "1">>, <<"b", "=", "2">>, <<"a", "=", "1", "0">>,
      <<"a", "=", "-", "1">>, <<"a", "=", "+", "3">>,
      <<"c", "=", "1">>,
      <<"a">>, <<"a", "1">>, << >>,
      <<"=", "1">>, <<"a", "=">>, <<"=">>,
      <<"a", "=", "x">>, <<"a", "=", "1", "x">>, <<"a", "=", "-">>,
      <<"a", "=", "1", "=", "2">> }

ArgLists == UNION {[1..n -> ManualArgInputs] : n \in 0..MaxArgs}

\* the string a sequence of characters spells
RECURSIVE Str(_)
Str(cs) == IF cs = << >> THEN "" ELSE Head(cs) \o Str(Tail(cs))

\* index of the first sep in s from position i on, 0 if there is none
RECURSIVE IndexFrom(_, _, _)
IndexFrom(s, sep, i) ==
    IF i > Len(s) THEN 0
    ELSE IF s[i] = sep THEN i
    ELSE IndexFrom(s, sep, i + 1)

\* strings.Cut(s, sep) for a one-character sep
Cut(s, sep) ==
    LET i == IndexFrom(s, sep, 1)
    IN  IF i = 0
        THEN [before |-> s, after |-> << >>, found |-> FALSE]
        ELSE [before |-> SubSeq(s, 1, i - 1),
              after  |-> SubSeq(s, i + 1, Len(s)),
              found  |-> TRUE]

DigitValue(d) ==
    CASE d = "0" -> 0 [] d = "1" -> 1 [] d = "2" -> 2 [] d = "3" -> 3
      [] d = "4" -> 4 [] d = "5" -> 5 [] d = "6" -> 6 [] d = "7" -> 7
      [] d = "8" -> 8 [] d = "9" -> 9

\* value of a sequence of digits, base 10, most significant first
RECURSIVE DecimalValue(_, _)
DecimalValue(ds, acc) ==
    IF ds = << >> THEN acc
    ELSE DecimalValue(Tail(ds), 10 * acc + DigitValue(Head(ds)))

\* variant: a value that is no number is read as 0
Atoi_Lenient(val) ==
    LET signed == val # << >> /\ Head(val) \in {"+", "-"}
        ds     == IF signed THEN Tail(val) ELSE val
    IN  IF ds = << >> \/ \E k \in 1..Len(ds) : ds[k] \notin Digits
        THEN [value |-> 0, err |-> FALSE]
        ELSE [value |-> IF signed /\ Head(val) = "-"
                        THEN 0 - DecimalValue(ds, 0)
                        ELSE DecimalValue(ds, 0),
              err   |-> FALSE]

\* strconv.Atoi(val): an optional sign, then one or more decimal digits
\* (the inputs are short: no value is out of the range of int)
Atoi(val) ==
    LET signed == val # << >> /\ Head(val) \in {"+", "-"}
        ds     == IF signed THEN Tail(val) ELSE val
    IN  IF ds = << >> \/ \E k \in 1..Len(ds) : ds[k] \notin Digits
        THEN [value |-> 0, err |-> TRUE]
        ELSE [value |-> IF signed /\ Head(val) = "-"
                        THEN 0 - DecimalValue(ds, 0)
                        ELSE DecimalValue(ds, 0),
              err   |-> FALSE]

\* serviceReplicaTuples[key] = intValue
PutTuple(tuples, key, intValue) ==
    [k \in DOMAIN tuples \cup {key} |-> IF k = key THEN intValue ELSE tuples[k]]

\* the for loop of parseServicesReplicasArgs over the arguments left, with
\* the map built so far
RECURSIVE parseFrom(_, _)
parseFrom(rest, tuples) ==
    IF rest = << >>
    THEN [tuples |-> tuples, err |-> FALSE]
    ELSE LET cut == Cut(Head(rest), "=")
         IN  IF ~cut.found \/ cut.before = << >> \/ cut.after = << >>
             THEN [tuples |-> NoTuples, err |-> TRUE]
             ELSE LET n == Atoi(cut.after)
                  IN  IF n.err
                      THEN [tuples |-> NoTuples, err |-> TRUE]
                      ELSE parseFrom(Tail(rest),
                                     PutTuple(tuples, Str(cut.before), n.value))

parseServicesReplicasArgs(arguments) == parseFrom(arguments, NoTuples)

ManualInit ==
    /\ fn = NoCall
    /\ serviceReplicaTuples = NoTuples
    /\ inflight = 0
    /\ visits = NoVisits
    /\ lastOk = [s \in Discovered |-> NilScale]
    /\ opts \in {o \in OptsInputs : /\ o.strategy = "balanced"
                                    /\ o.cpuThreshold = DefaultCpuThreshold
                                    /\ o.memThreshold = DefaultMemThreshold
                                    /\ o.minReplicas = 1
                                    /\ o.maxReplicas = MaxReplicasBound}
    /\ args \in ArgLists
    /\ projectServices \in [Discovered -> {NilScale, <<MaxInitScale>>}]
    /\ targetServices = [s \in {} |-> NilScale]
    /\ pc = "manual"
    /\ ctxDone = FALSE
    /\ remaining = {}
    /\ it = NoLocals
    /\ event = "none"
    /\ applied = {}

\* the variables of the automatic mode, which the manual mode leaves alone
autoVars == <<opts, args, targetServices, ctxDone, remaining, it, applied,
              inflight, visits, lastOk, fn>>

\* RunE: no argument at all
ManualNoArgs ==
    /\ pc = "manual"
    /\ Len(args) = 0
    /\ pc' = "failed"
    /\ event' = "noArgs"
    /\ UNCHANGED <<serviceReplicaTuples, projectServices, autoVars>>

\* RunE: parseServicesReplicasArgs returns an error
ManualParseErr ==
    /\ pc = "manual"
    /\ Len(args) > 0
    /\ parseServicesReplicasArgs(args).err
    /\ pc' = "failed"
    /\ event' = "invalidSpecifier"
    /\ UNCHANGED <<serviceReplicaTuples, projectServices, autoVars>>

\* runScale: compose.NewComposeService, opts.ToProject or
\* project.WithSelectedServices returns an error
ManualLoadErr ==
    /\ pc = "manual"
    /\ Len(args) > 0
    /\ ~parseServicesReplicasArgs(args).err
    /\ serviceReplicaTuples' = parseServicesReplicasArgs(args).tuples
    /\ pc' = "failed"
    /\ event' = "loadErr"
    /\ UNCHANGED <<projectServices, autoVars>>

\* runScale: project.GetService returns an error for a key of the map. The
\* range over the map visits the keys in any order, so any of the keys that
\* are services may have had their scale set before the failing key comes.
ManualNoSuchService ==
    /\ pc = "manual"
    /\ Len(args) > 0
    /\ ~parseServicesReplicasArgs(args).err
    /\ LET tuples == parseServicesReplicasArgs(args).tuples
       IN  /\ \E key \in DOMAIN tuples : key \notin DOMAIN projectServices
           /\ serviceReplicaTuples' = tuples
           /\ \E visited \in SUBSET (DOMAIN tuples \cap DOMAIN projectServices) :
                  projectServices' =
                      [s \in DOMAIN projectServices |->
                          IF s \in visited THEN <<tuples[s]>>
                          ELSE projectServices[s]]
    /\ pc' = "failed"
    /\ event' = "noSuchService"
    /\ UNCHANGED autoVars

\* runScale: every key is a service of the project; each gets its scale set
\* and backend.Scale is called
ManualScale ==
    /\ pc = "manual"
    /\ Len(args) > 0
    /\ ~parseServicesReplicasArgs(args).err
    /\ LET tuples == parseServicesReplicasArgs(args).tuples
       IN  /\ \A key \in DOMAIN tuples : key \in DOMAIN projectServices
           /\ serviceReplicaTuples' = tuples
           /\ projectServices' =
                  [s \in DOMAIN projectServices |->
                      IF s \in DOMAIN tuples THEN <<tuples[s]>>
                      ELSE projectServices[s]]
    /\ pc' = "manualScaling"
    /\ event' = "scaling"
    /\ UNCHANGED autoVars

\* backend.Scale returns nil
ManualScaleOk ==
    /\ pc = "manualScaling"
    /\ pc' = "done"
    /\ event' = "scaleOk"
    /\ UNCHANGED <<serviceReplicaTuples, projectServices, autoVars>>

\* backend.Scale returns an error, which runScale returns
ManualScaleErr ==
    /\ pc = "manualScaling"
    /\ pc' = "failed"
    /\ event' = "scaleErr"
    /\ UNCHANGED <<serviceReplicaTuples, projectServices, autoVars>>

ManualNext ==
    \/ ManualNoArgs
    \/ ManualParseErr
    \/ ManualLoadErr
    \/ ManualNoSuchService
    \/ ManualScale
    \/ ManualScaleOk
    \/ ManualScaleErr

ManualSpec == ManualInit /\ [][ManualNext]_vars

\* ----------------------------------------------------------------- claims
\* the scale the next tick's decision for service s starts from
Recorded(s) == CurrentScaleOf(targetServices[s])

InBounds(n) == opts.minReplicas <= n /\ n <= opts.maxReplicas

\* a decision has been computed in the current iteration
Decided == event \in {"unchanged", "scaling", "scaleOk", "scaleErr"}

\* C1: after every completed tick, every monitored service that has had a
\* decision applied has minReplicas <= currentScale <= maxReplicas.
C1_BoundsAfterTick ==
    pc = "sleeping" =>
        \A s \in DOMAIN targetServices : s \in applied => InBounds(Recorded(s))

\* C2: when the actuation for a service fails, the service's recorded
\* currentScale is still the value the tick read for it.
C2_FailedActuationKeepsScale ==
    event = "scaleErr" => Recorded(it.serviceName) = it.currentScale

\* C3: when the actuation for a service succeeds, the service's recorded
\* currentScale is the clamped target, whether services were named or not.
C3_SuccessRecordsTarget ==
    event = "scaleOk" => Recorded(it.serviceName) = it.newScale

\* the clamped targets a sample can produce from a scale
ClampedTargets(currentScale) ==
    {ApplyLimits(Decide(currentScale, c, m, opts), opts) : c \in Usages, m \in Usages}

\* C4: backend.Scale is called for a service only with a clamped target that
\* differs from the service's currentScale; a clamped target equal to
\* currentScale ends the iteration with no call.
C4_ActuateOnlyIfChanged ==
    [][/\ (pc = "sampling" /\ pc' = "scaling") =>
            /\ it'.newScale # it.currentScale
            /\ it'.newScale \in ClampedTargets(it.currentScale)
       /\ (pc = "sampling" /\ event' \notin {"sampleErr", "sampling"}
              /\ it'.newScale = it.currentScale) =>
            /\ pc' = "tick"
            /\ event' = "unchanged"
       /\ pc' = "scaling" => pc = "sampling" \/ pc = "scaling"]_vars

C4_Witness ==
    /\ event = "unchanged"
    /\ pc = "tick"
    /\ it.newScale = it.currentScale
    /\ it.serviceName \in applied

\* C5: for a currentScale within [minReplicas, maxReplicas], any sample and
\* each of the three strategies, the clamped decision is within
\* [minReplicas, maxReplicas].
C5_ClampedDecisionInBounds ==
    opts.strategy \in Strategies =>
        /\ (Decided /\ InBounds(it.currentScale)) => InBounds(it.newScale)
        /\ \A n \in opts.minReplicas..opts.maxReplicas : \A c \in Usages, m \in Usages :
               InBounds(ApplyLimits(Decide(n, c, m, opts), opts))

C5_Witness ==
    /\ opts.strategy \in Strategies
    /\ event = "scaling"
    /\ InBounds(it.currentScale)
    /\ it.currentScale < it.newScale
    /\ it.newScale = opts.maxReplicas

Running == pc \in {"select", "tick", "sampling", "scaling", "sleeping"}

\* C6: with a strategy name other than balanced, performance or efficiency
\* the loop never enters Running and no sample or actuation is issued.
C6_UnknownStrategyFatal ==
    opts.strategy \notin Strategies => ~Running

\* C7: with minReplicas > maxReplicas the loop never enters Running and no
\* sample or actuation is issued.
C7_MinAboveMaxFatal ==
    opts.minReplicas > opts.maxReplicas => ~Running

\* C8: a failed sample applies no decision for the service (no actuation,
\* both maps unchanged), the service is not sampled again in the tick, and
\* the range loop goes on with the services still to visit.
C8_SampleFailureSkips ==
    [][/\ (pc = "sampling" /\ event' = "sampleErr") =>
            /\ pc' = "tick"
            /\ targetServices' = targetServices
            /\ projectServices' = projectServices
            /\ applied' = applied
            /\ remaining' = remaining
            /\ it.serviceName \notin remaining'
       /\ (event = "sampleErr" /\ pc' = "sampling") =>
            it'.serviceName # it.serviceName]_vars

C8_Witness ==
    /\ event = "sampleErr"
    /\ pc = "tick"
    /\ remaining # {}

\* the iteration of service s has run to its decision or to its skip
Evaluated(s) ==
    /\ it.serviceName = s
    /\ event \in {"sampleErr", "unchanged", "scaling"}

\* C9: after backend.Scale fails for one service, every service the tick
\* has not visited yet is still sampled and evaluated.
C9_ActuationFailureDoesNotBlock ==
    \A s \in Discovered :
        (event = "scaleErr" /\ s \in remaining) ~> Evaluated(s)

C9_Witness ==
    /\ event = "scaleErr"
    /\ pc = "tick"
    /\ remaining # {}

\* C10: a sampling or actuation failure never ends the run: the run ends
\* only on cancellation, and after a failure a further tick starts unless
\* the context is cancelled.
C10_FailuresNeverStopTheRun ==
    /\ [](pc = "stopped" => ctxDone)
    /\ [](pc = "failed" => event = "none")
    /\ (event \in {"sampleErr", "scaleErr"}) ~> (ctxDone \/ event = "tickStart")

C10_Witness ==
    /\ event \in {"sampleErr", "scaleErr"}
    /\ pc = "tick"
    /\ remaining = {}
    /\ ~ctxDone

\* C11: when the context is cancelled by the time the evaluations of a tick
\* finish, the loop does not sleep and stops at once; it sleeps only when
\* the context is not cancelled.
C11_CancelSkipsSleep ==
    [][/\ (pc = "tick" /\ remaining = {} /\ ctxDone) => pc' = "stopped"
       /\ (pc # "sleeping" /\ pc' = "sleeping") => ~ctxDone]_vars

\* C12: a stopped loop stays stopped and does nothing more, the loop stops
\* only by observing the cancellation at the select, and no tick starts
\* from a select that observes the cancellation.
C12_StoppedIsFinal ==
    [][/\ pc = "stopped" => vars' = vars
       /\ (pc = "select" /\ ctxDone) => pc' = "stopped"
       /\ pc' = "stopped" => (pc = "select" /\ ctxDone)]_vars

C12_Witness ==
    /\ pc = "stopped"
    /\ event = "tickEnd"
    /\ applied # {}

\* C13: once the context is cancelled, a running loop eventually stops and
\* returns nil (pc = "stopped"; an error return is pc = "failed").
C13_CancelLeadsToStopped ==
    (ctxDone /\ Running) ~> (pc = "stopped")

C13_Witness ==
    /\ pc = "stopped"
    /\ ctxDone
    /\ DOMAIN targetServices # {}

\* C14: the services the loop monitors are the named services that the
\* project has, or every service of the project when none is named.
C14_TargetSet ==
    pc \notin {"start", "failed"} =>
        DOMAIN targetServices =
            (IF args = {} THEN Discovered ELSE {s \in args : s \in Discovered})

C14_Witness ==
    /\ pc = "select"
    /\ \E s \in args : s \notin Discovered
    /\ DOMAIN targetServices # {}
    /\ DOMAIN targetServices # Discovered

\* ------------------------------------------- claims about one decision
Max2(x, y) == IF x >= y THEN x ELSE y
Min2(x, y) == IF x <= y THEN x ELSE y

\* usage u is above / below the fraction k/10 of threshold t
Above(u, k, t) == 10 * u > k * t
Below(u, k, t) == 10 * u < k * t

\* floor of n * p / q for n >= 0
FloorMul(n, p, q) == (n * p) \div q

\* C15: the limits step returns max(minReplicas, min(maxReplicas, desired))
\* for every desired scale and every configured minReplicas, maxReplicas.
C15_ClampIsMaxMin ==
    fn.done =>
        fn.newScale = Max2(opts.minReplicas, Min2(opts.maxReplicas, fn.desired))

\* C16: balanced returns currentScale+1 if cpu or mem is above its
\* threshold, else currentScale-1 if both are below 0.7 of their threshold
\* and currentScale > minReplicas, else currentScale.
C16_BalancedDecision ==
    (fn.done /\ opts.strategy = "balanced") =>
        fn.desired =
            IF Above(fn.cpuUsage, 10, opts.cpuThreshold) \/ Above(fn.memUsage, 10, opts.memThreshold)
            THEN fn.currentScale + 1
            ELSE IF /\ Below(fn.cpuUsage, 7, opts.cpuThreshold)
                    /\ Below(fn.memUsage, 7, opts.memThreshold)
                    /\ fn.currentScale > opts.minReplicas
                 THEN fn.currentScale - 1
                 ELSE fn.currentScale

\* the two balanced examples: cpu 80, mem 50, scale 2 gives 3, and
\* cpu 40, mem 40, scale 3, min 1 gives 2 (thresholds 70/70)
C16_Witness ==
    /\ fn.done
    /\ opts.strategy = "balanced"
    /\ opts.cpuThreshold = 70 /\ opts.memThreshold = 70
    /\ \/ (fn.cpuUsage = 80 /\ fn.memUsage = 50 /\ fn.currentScale = 2 /\ fn.desired = 3)
       \/ (fn.cpuUsage = 40 /\ fn.memUsage = 40 /\ fn.currentScale = 3
             /\ opts.minReplicas = 1 /\ fn.desired = 2)

\* C17: performance returns floor(1.5*currentScale) if cpu or mem is above
\* its threshold, else currentScale-1 if both are below 0.5 of their
\* threshold and currentScale > minReplicas, else currentScale.
C17_PerformanceDecision ==
    (fn.done /\ opts.strategy = "performance") =>
        fn.desired =
            IF Above(fn.cpuUsage, 10, opts.cpuThreshold) \/ Above(fn.memUsage, 10, opts.memThreshold)
            THEN FloorMul(fn.currentScale, 3, 2)
            ELSE IF /\ Below(fn.cpuUsage, 5, opts.cpuThreshold)
                    /\ Below(fn.memUsage, 5, opts.memThreshold)
                    /\ fn.currentScale > opts.minReplicas
                 THEN fn.currentScale - 1
                 ELSE fn.currentScale

\* the performance example: cpu 90, mem 50, thresholds 70/70, scale 2 gives 3
C17_Witness ==
    /\ fn.done
    /\ opts.strategy = "performance"
    /\ opts.cpuThreshold = 70 /\ opts.memThreshold = 70
    /\ fn.cpuUsage = 90 /\ fn.memUsage = 50 /\ fn.currentScale = 2
    /\ fn.desired = 3

\* C18: efficiency returns currentScale+1 if cpu or mem is above 1.2 of its
\* threshold, else floor(0.75*currentScale) if cpu is below its threshold
\* or (mem is below its threshold and currentScale > minReplicas), else
\* currentScale.
C18_EfficiencyDecision ==
    (fn.done /\ opts.strategy = "efficiency") =>
        fn.desired =
            IF Above(fn.cpuUsage, 12, opts.cpuThreshold) \/ Above(fn.memUsage, 12, opts.memThreshold)
            THEN fn.currentScale + 1
            ELSE IF \/ Below(fn.cpuUsage, 10, opts.cpuThreshold)
                    \/ /\ Below(fn.memUsage, 10, opts.memThreshold)
                       /\ fn.currentScale > opts.minReplicas
                 THEN FloorMul(fn.currentScale, 3, 4)
                 ELSE fn.currentScale

\* the efficiency example: cpu 60, mem 80, thresholds 70/70, scale 4, min 1
\* gives 3
C18_Witness ==
    /\ fn.done
    /\ opts.strategy = "efficiency"
    /\ opts.cpuThreshold = 70 /\ opts.memThreshold = 70
    /\ fn.cpuUsage = 60 /\ fn.memUsage = 80 /\ fn.currentScale = 4
    /\ opts.minReplicas = 1
    /\ fn.desired = 3

\* C19 as stated: under efficiency, cpu below its threshold gives
\* floor(0.75*currentScale) for every mem and every currentScale.
C19_CpuAloneScalesDown ==
    (fn.done /\ opts.strategy = "efficiency"
        /\ Below(fn.cpuUsage, 10, opts.cpuThreshold)) =>
        fn.desired = FloorMul(fn.currentScale, 3, 4)

\* C19 amended: under efficiency, when the scale-up test fails (neither cpu
\* nor mem is above 1.2 of its threshold) and cpu is below its threshold,
\* the decision is floor(0.75*currentScale) for every such mem and every
\* currentScale >= 0, whether or not currentScale > minReplicas.
C19_CpuAloneScalesDownUnlessScaleUp ==
    (fn.done /\ opts.strategy = "efficiency"
        /\ ~Above(fn.cpuUsage, 12, opts.cpuThreshold)
        /\ ~Above(fn.memUsage, 12, opts.memThreshold)
        /\ Below(fn.cpuUsage, 10, opts.cpuThreshold)) =>
        fn.desired = FloorMul(fn.currentScale, 3, 4)

\* cpu below threshold, mem not below, scale not above minReplicas: the
\* decision still goes down
C19_Witness ==
    /\ fn.done
    /\ opts.strategy = "efficiency"
    /\ Below(fn.cpuUsage, 10, opts.cpuThreshold)
    /\ ~Below(fn.memUsage, 10, opts.memThreshold)
    /\ ~Above(fn.memUsage, 12, opts.memThreshold)
    /\ fn.currentScale >= 1
    /\ fn.currentScale <= opts.minReplicas
    /\ fn.desired = FloorMul(fn.currentScale, 3, 4)
    /\ fn.desired < fn.currentScale

\* C20: a service whose scale is outside [minReplicas, maxReplicas] when its
\* iteration starts, and whose sample succeeds, gets a backend.Scale call
\* with a target inside the bounds.
C20_OutOfBoundsPulledBack ==
    [][(pc = "sampling" /\ ~InBounds(it.currentScale)
          /\ event' \in {"unchanged", "scaling"}) =>
            /\ pc' = "scaling"
            /\ InBounds(it'.newScale)
            /\ projectServices'[it.serviceName] = <<it'.newScale>>]_vars

InTick == pc \in {"tick", "sampling", "scaling"}

\* C21: a cancellation that arrives while a tick is in progress does not
\* interrupt it: the tick goes on to its end over every service left, and
\* the loop stops only from the select at the top of an iteration.
C21_CancelDoesNotPreempt ==
    [][/\ (InTick /\ ctxDone) => pc' \in {"tick", "sampling", "scaling", "sleeping"}
       /\ (InTick /\ ctxDone /\ pc' = "sleeping") => remaining = {} /\ pc = "tick"
       /\ (pc = "tick" /\ ctxDone /\ pc' = "sampling") =>
              remaining' = remaining \ {it'.serviceName}
       /\ pc' = "stopped" => pc \in {"select", "stopped"}]_vars

C21_Witness ==
    /\ ctxDone
    /\ pc = "scaling"
    /\ remaining # {}

\* C28: under efficiency with minReplicas <= maxReplicas, a service at
\* currentScale = minReplicas whose sample takes the scale-down branch gets
\* no backend.Scale call: the limits bring floor(0.75*currentScale) back to
\* minReplicas.
C28_EfficiencyAtMinNoCall ==
    (/\ fn.done
     /\ opts.strategy = "efficiency"
     /\ opts.minReplicas <= opts.maxReplicas
     /\ fn.currentScale = opts.minReplicas
     /\ ~Above(fn.cpuUsage, 12, opts.cpuThreshold)
     /\ ~Above(fn.memUsage, 12, opts.memThreshold)
     /\ \/ Below(fn.cpuUsage, 10, opts.cpuThreshold)
        \/ (Below(fn.memUsage, 10, opts.memThreshold)
              /\ fn.currentScale > opts.minReplicas)) =>
        /\ fn.desired = FloorMul(fn.currentScale, 3, 4)
        /\ fn.newScale = opts.minReplicas
        /\ ~ScaleNeeded(fn.newScale, fn.currentScale)

C28_Witness ==
    /\ fn.done
    /\ opts.strategy = "efficiency"
    /\ opts.minReplicas <= opts.maxReplicas
    /\ fn.currentScale = opts.minReplicas
    /\ Below(fn.cpuUsage, 10, opts.cpuThreshold)
    /\ ~Above(fn.memUsage, 12, opts.memThreshold)
    /\ fn.desired < fn.currentScale
    /\ fn.newScale = fn.currentScale

\* C29: a monitored service whose Scale is nil is evaluated with
\* currentScale = 1, and its Scale stays nil until an iteration of that
\* service decides a changed scale and stores it.
C29_NilScaleCountsAsOne ==
    [][/\ (pc = "tick" /\ pc' = "sampling"
              /\ targetServices[it'.serviceName] = NilScale) =>
            it'.currentScale = 1
       /\ \A s \in DOMAIN targetServices :
             (targetServices[s] = NilScale /\ targetServices'[s] # NilScale) =>
                /\ pc = "sampling"
                /\ pc' = "scaling"
                /\ it.serviceName = s
                /\ targetServices'[s] = <<it'.newScale>>]_vars

C29_Witness ==
    /\ pc = "sampling"
    /\ it.serviceName \in applied
    /\ targetServices[it.serviceName] = NilScale
    /\ it.currentScale = 1

\* C22: at most one collaborator call is outstanding at any time, and none
\* is outstanding outside the evaluation of a service (so none when a tick
\* ends, while the loop sleeps or when the next tick starts).
C22_OneOutstandingCall ==
    /\ inflight <= 1
    /\ pc \notin {"sampling", "scaling"} => inflight = 0

C22_Witness ==
    /\ pc = "scaling"
    /\ inflight = 1
    /\ remaining = {}
    /\ \A s \in Discovered : visits[s].samples = 1

\* C23: in a tick every target service is sampled exactly once and gets at
\* most one backend.Scale call; services outside the target set get none.
C23_OnceServicePerTick ==
    [][/\ \A s \in Discovered :
             visits'[s].samples <= 1 /\ visits'[s].scales <= visits'[s].samples
       /\ (pc = "tick" /\ pc' = "sleeping") =>
             \A s \in Discovered :
                 visits[s].samples = (IF s \in DOMAIN targetServices THEN 1 ELSE 0)]_vars

C23_Witness ==
    /\ pc = "tick"
    /\ remaining = {}
    /\ \A s \in Discovered : visits[s].samples = 1
    /\ \E s \in Discovered : visits[s].scales = 1
    /\ \E s \in Discovered : visits[s].scales = 0

\* C25: backend.Scale is never called for a service with the target of the
\* last call that succeeded for that service.
C25_NoRepeatedTarget ==
    [][(pc = "sampling" /\ pc' = "scaling") =>
           lastOk[it.serviceName] # <<it'.newScale>>]_vars

\* the loop monitors s and its recorded scale is maxReplicas
AtMax(s) == s \in DOMAIN targetServices /\ Recorded(s) = opts.maxReplicas

\* C26: under the performance strategy and lasting overload, a monitored
\* service with 1 <= currentScale < maxReplicas eventually has maxReplicas
\* as its recorded scale.
C26_PerformanceReachesMax ==
    \A s \in Discovered :
        (/\ opts.strategy = "performance"
         /\ s \in DOMAIN targetServices
         /\ 1 <= Recorded(s)
         /\ Recorded(s) < opts.maxReplicas) ~> AtMax(s)

\* C27: under the balanced strategy and lasting overload, the recorded
\* scale of every monitored service eventually is maxReplicas; from then on
\* it stays there and no evaluation of the service calls backend.Scale.
C27_BalancedSettlesAtMax ==
    /\ \A s \in Discovered : (opts.strategy = "balanced" /\ Running) ~> AtMax(s)
    /\ [][\A s \in Discovered :
              (opts.strategy = "balanced" /\ AtMax(s)) =>
                  /\ AtMax(s)'
                  /\ (pc = "sampling" /\ it.serviceName = s) => pc' # "scaling"]_vars

C27_Witness ==
    /\ opts.strategy = "balanced"
    /\ pc = "tick"
    /\ event = "unchanged"
    /\ AtMax(it.serviceName)
    /\ it.currentScale = opts.maxReplicas
    /\ lastOk[it.serviceName] = <<opts.maxReplicas>>
    /\ visits[it.serviceName].scales = 0

\* text of an integer: an optional sign, then digits and nothing else
IsIntegerText(v) ==
    LET first == IF v # << >> /\ v[1] \in {"+", "-"} THEN 2 ELSE 1
    IN  /\ first <= Len(v)
        /\ \A k \in first..Len(v) : v[k] \in Digits

\* arg is SERVICE=REPLICAS: a non-empty service name with no "=", then "=",
\* then the text of an integer; the service is one of the project
NamesServiceAndReplicas(arg) ==
    \E i \in 2..(Len(arg) - 1) :
        /\ arg[i] = "="
        /\ \A j \in 1..(i - 1) : arg[j] # "="
        /\ IsIntegerText(SubSeq(arg, i + 1, Len(arg)))
        /\ Str(SubSeq(arg, 1, i - 1)) \in DOMAIN projectServices

ScaleIssued == pc \in {"manualScaling", "done"} \/ event = "scaleErr"

\* C30: in manual mode backend.Scale is called only if there is at least
\* one argument and every argument is SERVICE=REPLICAS with a non-empty
\* service of the project and an integer value; otherwise the command ends
\* with an error and backend.Scale is not called.
C30_ManualScaleOnlyIfWellFormed ==
    LET wellFormed == /\ Len(args) >= 1
                      /\ \A k \in 1..Len(args) : NamesServiceAndReplicas(args[k])
    IN  /\ ScaleIssued => wellFormed
        /\ (~wellFormed /\ pc # "manual") => (pc = "failed" /\ ~ScaleIssued)

C30_Witness ==
    /\ pc = "done"
    /\ Len(args) = 2
    /\ DOMAIN serviceReplicaTuples = {"a", "b"}
    /\ projectServices["a"] = <<0 - 1>>
    /\ projectServices["b"] = <<2>>

====
